---- MODULE Spec2Model ----
(***************************************************************************)
(* parsekit: the format detector (ext/parsekit/src/format_detector.rs)     *)
(* and the Parser that enforces the size limit and dispatches a buffer to  *)
(* a decoding capability (ext/parsekit/src/parser.rs).                     *)
(*                                                                         *)
(* Bytes are integers 0..255, strings are sequences of Unicode code        *)
(* points, Option<T> is a sequence of length 0 (None) or 1 (Some).         *)
(***************************************************************************)
EXTENDS Integers, Sequences, FiniteSets, TLC

VARIABLES config, pc, call, result, trace

vars == <<config, pc, call, result, trace>>

----------------------------------------------------------------------------
(* Notation for literals *)

None == <<>>

Some(x) == <<x>>

Min(a, b) == IF a < b THEN a ELSE b

\* The printable ASCII characters in code order, starting at the space (32).
AsciiChars ==
    <<" ", "!", "QUOTE", "#", "$", "%", "&", "'", "(", ")", "*", "+", ",", "-", ".", "/",
      "0", "1", "2", "3", "4", "5", "6", "7", "8", "9", ":", ";", "<", "=", ">", "?",
      "@", "A", "B", "C", "D", "E", "F", "G", "H", "I", "J", "K", "L", "M", "N", "O",
      "P", "Q", "R", "S", "T", "U", "V", "W", "X", "Y", "Z", "[", "BACKSLASH", "]", "^", "_",
      "BACKTICK", "a", "b", "c", "d", "e", "f", "g", "h", "i", "j", "k", "l", "m", "n", "o",
      "p", "q", "r", "s", "t", "u", "v", "w", "x", "y", "z", "{", "|", "}", "~">>

Ord(c) == 31 + (CHOOSE i \in 1..Len(AsciiChars) : AsciiChars[i] = c)

\* The code points (equally, the bytes) of an ASCII literal such as b"%PDF".
Str(s) == [i \in 1..Len(s) |-> Ord(s[i])]

\* U+FFFD REPLACEMENT CHARACTER, which lossy decoding puts for malformed bytes.
REPLACEMENT == 65533

----------------------------------------------------------------------------
(* Slices and string searches of the standard library, as the detector uses them *)

\* The outcome of a slice whose end lies beyond the buffer: the call panics.
PANIC == <<-1>>

\* &data[0..n]
slice_to(data, n) == IF n > Len(data) THEN PANIC ELSE SubSeq(data, 1, n)

\* <[u8]>::starts_with and str::starts_with
starts_with(s, prefix) ==
    /\ Len(s) >= Len(prefix)
    /\ \A i \in 1..Len(prefix) : s[i] = prefix[i]

\* str::contains
contains(s, pat) ==
    \E i \in 1..(Len(s) - Len(pat) + 1) :
        \A j \in 1..Len(pat) : s[i + j - 1] = pat[j]

IsCont(b) == b >= 128 /\ b <= 191

\* The number of bytes a UTF-8 decoder consumes for the character (or the
\* malformed sequence) that starts at byte i, and the code point it yields.
\* A malformed sequence is the longest prefix of a well-formed one; it yields
\* one U+FFFD and the byte that broke it starts the next character.
Utf8Step(s, i) ==
    LET n  == Len(s)
        b0 == s[i]
        b1 == IF i + 1 <= n THEN s[i + 1] ELSE -1
        b2 == IF i + 2 <= n THEN s[i + 2] ELSE -1
        b3 == IF i + 3 <= n THEN s[i + 3] ELSE -1
        bad(k) == [len |-> k, cp |-> REPLACEMENT, bad |-> TRUE]
    IN  IF b0 < 128 THEN [len |-> 1, cp |-> b0, bad |-> FALSE]
        ELSE IF b0 >= 194 /\ b0 <= 223 THEN
            IF IsCont(b1) THEN [len |-> 2, cp |-> (b0 - 192) * 64 + (b1 - 128), bad |-> FALSE]
            ELSE bad(1)
        ELSE IF b0 >= 224 /\ b0 <= 239 THEN
            LET lo == IF b0 = 224 THEN 160 ELSE 128
                hi == IF b0 = 237 THEN 159 ELSE 191
            IN  IF ~(b1 >= lo /\ b1 <= hi) THEN bad(1)
                ELSE IF ~IsCont(b2) THEN bad(2)
                ELSE [len |-> 3, bad |-> FALSE,
                      cp |-> (b0 - 224) * 4096 + (b1 - 128) * 64 + (b2 - 128)]
        ELSE IF b0 >= 240 /\ b0 <= 244 THEN
            LET lo == IF b0 = 240 THEN 144 ELSE 128
                hi == IF b0 = 244 THEN 143 ELSE 191
            IN  IF ~(b1 >= lo /\ b1 <= hi) THEN bad(1)
                ELSE IF ~IsCont(b2) THEN bad(2)
                ELSE IF ~IsCont(b3) THEN bad(3)
                ELSE [len |-> 4, bad |-> FALSE,
                      cp |-> (b0 - 240) * 262144 + (b1 - 128) * 4096
                             + (b2 - 128) * 64 + (b3 - 128)]
        ELSE bad(1)

\* The end (exclusive) of the run of ASCII bytes that starts at byte i.
AsciiRunEnd(s, i) ==
    IF \E k \in i..Len(s) : s[k] >= 128
    THEN CHOOSE k \in i..Len(s) : s[k] >= 128 /\ \A j \in i..(k - 1) : s[j] < 128
    ELSE Len(s) + 1

RECURSIVE LossyFrom(_, _)
LossyFrom(s, i) ==
    IF i > Len(s) THEN <<>>
    ELSE IF s[i] < 128
    THEN LET e == AsciiRunEnd(s, i) IN SubSeq(s, i, e - 1) \o LossyFrom(s, e)
    ELSE LET st == Utf8Step(s, i) IN <<st.cp>> \o LossyFrom(s, i + st.len)

\* String::from_utf8_lossy
from_utf8_lossy(bytes) == LossyFrom(bytes, 1)

\* char::to_lowercase for the code points the inputs can hold: ASCII and
\* Latin-1 capitals, U+0130 (which lowercases to two code points) and
\* U+212A KELVIN SIGN (which lowercases to ASCII k).
LowerChar(c) ==
    IF c >= 65 /\ c <= 90 THEN <<c + 32>>
    ELSE IF c >= 192 /\ c <= 222 /\ c # 215 THEN <<c + 32>>
    ELSE IF c = 304 THEN <<105, 775>>
    ELSE IF c = 8490 THEN <<107>>
    ELSE <<c>>

RECURSIVE to_lowercase(_)
\* str::to_lowercase
to_lowercase(s) ==
    IF s = <<>> THEN <<>> ELSE LowerChar(Head(s)) \o to_lowercase(Tail(s))

----------------------------------------------------------------------------
(* format_detector.rs *)

FileFormat ==
    {"Pdf", "Docx", "Xlsx", "Xls", "Pptx", "Png", "Jpeg", "Tiff", "Bmp", "Json",
     "Xml", "Html", "Text", "Unknown"}

PDF_MAGIC == Str(<<"%", "P", "D", "F">>)

PNG_MAGIC == <<137, 80, 78, 71, 13, 10, 26, 10>>

JPEG_MAGIC == <<255, 216, 255>>

BMP_MAGIC == Str(<<"B", "M">>)

TIFF_LE_MAGIC == Str(<<"I", "I">>) \o <<42, 0>>

TIFF_BE_MAGIC == Str(<<"M", "M">>) \o <<0, 42>>

OLE_MAGIC == <<208, 207, 17, 224>>

ZIP_MAGIC == Str(<<"P", "K">>)

\* b" \t\n\r"
WHITESPACE == {32, 9, 10, 13}

\* The length of the prefix detect_office_format inspects.
OFFICE_WINDOW == 2000

\* Variant: the window is not cut down to a shorter buffer.
check_len_fixed(data) == OFFICE_WINDOW

\* Variant: the whole buffer is inspected, not only the window.
check_len_whole(data) == Len(data)

check_len(data) == Min(OFFICE_WINDOW, Len(data))

\* Variant: ppt/ is looked for before xl/.
detect_office_format_ppt_first(data) ==
    LET slice == slice_to(data, check_len(data))
        content == from_utf8_lossy(slice)
    IN  IF slice = PANIC THEN "Panic"
        ELSE IF contains(content, Str(<<"w", "o", "r", "d", "/">>)) THEN "Docx"
        ELSE IF contains(content, Str(<<"p", "p", "t", "/">>)) THEN "Pptx"
        ELSE "Xlsx"

\* FormatDetector::detect_office_format
detect_office_format(data) ==
    LET slice == slice_to(data, check_len(data))
        content == from_utf8_lossy(slice)
    IN  IF slice = PANIC THEN "Panic"
        ELSE IF \/ contains(content, Str(<<"w", "o", "r", "d", "/">>))
                \/ contains(content, Str(<<"w", "o", "r", "d", "/", "_", "r", "e", "l", "s">>))
        THEN "Docx"
        ELSE IF \/ contains(content, Str(<<"x", "l", "/">>))
                \/ contains(content, Str(<<"x", "l", "/", "_", "r", "e", "l", "s">>))
        THEN "Xlsx"
        ELSE IF \/ contains(content, Str(<<"p", "p", "t", "/">>))
                \/ contains(content, Str(<<"p", "p", "t", "/", "_", "r", "e", "l", "s">>))
        THEN "Pptx"
        ELSE "Xlsx"

\* Variant: a buffer must be longer than the signature.
is_png_strict(data) == Len(data) > 8 /\ starts_with(data, PNG_MAGIC)

\* if data.len() >= 8 && data.starts_with(PNG signature)
is_png(data) == Len(data) >= 8 /\ starts_with(data, PNG_MAGIC)

\* The XML test: the first 5 bytes, decoded lossily, start with <?xml or <!
xml_test(data) ==
    IF Len(data) >= 5
    THEN LET slice == slice_to(data, Min(5, Len(data)))
             start == from_utf8_lossy(slice)
         IN  IF slice = PANIC THEN "Panic"
             ELSE IF \/ starts_with(start, Str(<<"<", "?", "x", "m", "l">>))
                     \/ starts_with(start, Str(<<"<", "!">>))
             THEN "Match" ELSE "NoMatch"
    ELSE "NoMatch"

\* Variant: the HTML test without the guard on the buffer's length.
html_test_unguarded(data) ==
    LET start == to_lowercase(from_utf8_lossy(slice_to(data, Min(14, Len(data)))))
    IN  IF \/ contains(start, Str(<<"<", "!", "d", "o", "c", "t", "y", "p", "e">>))
           \/ contains(start, Str(<<"<", "h", "t", "m", "l">>))
        THEN "Match" ELSE "NoMatch"

\* The HTML test: the first 14 bytes, decoded lossily and lowercased, contain
\* <!doctype or <html
html_test(data) ==
    IF Len(data) >= 14
    THEN LET slice == slice_to(data, Min(14, Len(data)))
             start == to_lowercase(from_utf8_lossy(slice))
         IN  IF slice = PANIC THEN "Panic"
             ELSE IF \/ contains(start, Str(<<"<", "!", "d", "o", "c", "t", "y", "p", "e">>))
                     \/ contains(start, Str(<<"<", "h", "t", "m", "l">>))
             THEN "Match" ELSE "NoMatch"
    ELSE "NoMatch"

\* data.iter().find(|b| !b" \t\n\r".contains(b)): the first byte that is no
\* whitespace, if there is one.
first_non_ws(data) ==
    IF \E k \in 1..Len(data) : data[k] \notin WHITESPACE
    THEN Some(data[CHOOSE k \in 1..Len(data) :
                     /\ data[k] \notin WHITESPACE
                     /\ \A j \in 1..(k - 1) : data[j] \in WHITESPACE])
    ELSE None

\* The JSON test: the first byte that is no whitespace is { or [
json_test(data) ==
    /\ first_non_ws(data) # None
    /\ first_non_ws(data)[1] \in {Ord("{"), Ord("[")}

\* FormatDetector::detect_from_content
detect_from_content(data) ==
    IF Len(data) = 0 THEN "Text"
    ELSE IF Len(data) >= 4 /\ starts_with(data, PDF_MAGIC) THEN "Pdf"
    ELSE IF is_png(data) THEN "Png"
    ELSE IF Len(data) >= 3 /\ starts_with(data, JPEG_MAGIC) THEN "Jpeg"
    ELSE IF Len(data) >= 2 /\ starts_with(data, BMP_MAGIC) THEN "Bmp"
    ELSE IF /\ Len(data) >= 4
            /\ (starts_with(data, TIFF_LE_MAGIC) \/ starts_with(data, TIFF_BE_MAGIC))
    THEN "Tiff"
    ELSE IF Len(data) >= 4 /\ starts_with(data, OLE_MAGIC) THEN "Xls"
    ELSE IF Len(data) >= 2 /\ starts_with(data, ZIP_MAGIC) THEN detect_office_format(data)
    ELSE IF xml_test(data) # "NoMatch"
    THEN (IF xml_test(data) = "Panic" THEN "Panic" ELSE "Xml")
    ELSE IF html_test(data) # "NoMatch"
    THEN (IF html_test(data) = "Panic" THEN "Panic" ELSE "Html")
    ELSE IF json_test(data) THEN "Json"
    ELSE "Text"

\* The pieces of s between the occurrences of sep.
RECURSIVE SplitOn(_, _)
SplitOn(s, sep) ==
    IF \E k \in 1..Len(s) : s[k] = sep
    THEN LET k == CHOOSE k \in 1..Len(s) :
                      s[k] = sep /\ \A j \in 1..(k - 1) : s[j] # sep
         IN  <<SubSeq(s, 1, k - 1)>> \o SplitOn(SubSeq(s, k + 1, Len(s)), sep)
    ELSE <<s>>

\* Path::file_name: the last component of the path when it is a normal one.
\* Repeated and trailing separators and "." components are no components.
file_name(path) ==
    LET IsComponent(c) == c # <<>> /\ c # Str(<<".">>)
        comps == SelectSeq(SplitOn(path, Ord("/")), IsComponent)
    IN  IF comps = <<>> THEN None
        ELSE IF comps[Len(comps)] = Str(<<".", ".">>) THEN None
        ELSE Some(comps[Len(comps)])

\* Path::extension: what follows the last dot of the file name, unless there
\* is no dot or nothing stands before it.
extension(path) ==
    LET name == file_name(path) IN
    IF name = None THEN None
    ELSE LET f == name[1]
             dots == {k \in 1..Len(f) : f[k] = Ord(".")}
         IN  IF dots = {} THEN None
             ELSE LET k == CHOOSE k \in dots : \A j \in dots : j <= k
                  IN  IF k = 1 THEN None ELSE Some(SubSeq(f, k + 1, Len(f)))

\* The match of detect_from_extension on the lowercased extension.
extension_table(ext) ==
    CASE ext = Str(<<"p", "d", "f">>) -> "Pdf"
      [] ext = Str(<<"d", "o", "c", "x">>) -> "Docx"
      [] ext = Str(<<"x", "l", "s", "x">>) -> "Xlsx"
      [] ext = Str(<<"x", "l", "s">>) -> "Xls"
      [] ext = Str(<<"p", "p", "t", "x">>) -> "Pptx"
      [] ext = Str(<<"p", "n", "g">>) -> "Png"
      [] ext = Str(<<"j", "p", "g">>) \/ ext = Str(<<"j", "p", "e", "g">>) -> "Jpeg"
      [] ext = Str(<<"t", "i", "f", "f">>) \/ ext = Str(<<"t", "i", "f">>) -> "Tiff"
      [] ext = Str(<<"b", "m", "p">>) -> "Bmp"
      [] ext = Str(<<"j", "s", "o", "n">>) -> "Json"
      [] ext = Str(<<"x", "m", "l">>) -> "Xml"
      [] ext = Str(<<"h", "t", "m", "l">>) \/ ext = Str(<<"h", "t", "m">>) -> "Html"
      [] \/ ext = Str(<<"t", "x", "t">>)
         \/ ext = Str(<<"t", "e", "x", "t">>)
         \/ ext = Str(<<"m", "d">>)
         \/ ext = Str(<<"m", "a", "r", "k", "d", "o", "w", "n">>)
         \/ ext = Str(<<"c", "s", "v">>) -> "Text"
      [] OTHER -> "Unknown"

\* Variant: the extension is looked up as it is written.
detect_from_extension_case_sensitive(filename) ==
    LET ext == extension(filename) IN
    IF ext = None THEN "Unknown" ELSE extension_table(ext[1])

\* FormatDetector::detect_from_extension
detect_from_extension(filename) ==
    LET ext == extension(filename) IN
    IF ext = None THEN "Unknown" ELSE extension_table(to_lowercase(ext[1]))

\* Variant: a known extension is preferred to the content's signature.
detect_extension_first(filename, content) ==
    LET format == detect_from_content(content[1])
        ext_format == detect_from_extension(filename[1])
    IN  IF filename # None /\ ext_format # "Unknown" THEN ext_format
        ELSE IF content # None THEN format
        ELSE "Unknown"

\* Variant: content that classifies as Text is Text, whatever the extension.
detect_text_first(filename, content) ==
    LET format == detect_from_content(content[1])
        ext_format == detect_from_extension(filename[1])
    IN  IF content # None /\ format # "Unknown" THEN format
        ELSE IF filename # None /\ ext_format # "Unknown" THEN ext_format
        ELSE "Unknown"

\* Variant: without the last test for content that classifies as Text.
detect_no_text_fallback(filename, content) ==
    LET format == detect_from_content(content[1])
        ext_format == detect_from_extension(filename[1])
    IN  IF content # None /\ format \notin {"Text", "Unknown"} THEN format
        ELSE IF filename # None /\ ext_format # "Unknown" THEN ext_format
        ELSE "Unknown"

\* FormatDetector::detect
detect(filename, content) ==
    LET format == detect_from_content(content[1])
        ext_format == detect_from_extension(filename[1])
    IN  IF content # None /\ format \notin {"Text", "Unknown"} THEN format
        ELSE IF filename # None /\ ext_format # "Unknown" THEN ext_format
        ELSE IF content # None /\ format = "Text" THEN "Text"
        ELSE "Unknown"

\* Variant: Html has a tag of its own.
to_symbol_html_own(format) ==
    CASE format = "Pdf" -> Str(<<"p", "d", "f">>)
      [] format = "Docx" -> Str(<<"d", "o", "c", "x">>)
      [] format = "Xlsx" -> Str(<<"x", "l", "s", "x">>)
      [] format = "Xls" -> Str(<<"x", "l", "s">>)
      [] format = "Pptx" -> Str(<<"p", "p", "t", "x">>)
      [] format = "Png" -> Str(<<"p", "n", "g">>)
      [] format = "Jpeg" -> Str(<<"j", "p", "e", "g">>)
      [] format = "Tiff" -> Str(<<"t", "i", "f", "f">>)
      [] format = "Bmp" -> Str(<<"b", "m", "p">>)
      [] format = "Json" -> Str(<<"j", "s", "o", "n">>)
      [] format = "Xml" -> Str(<<"x", "m", "l">>)
      [] format = "Html" -> Str(<<"h", "t", "m", "l">>)
      [] format = "Text" -> Str(<<"t", "e", "x", "t">>)
      [] format = "Unknown" -> Str(<<"u", "n", "k", "n", "o", "w", "n">>)

\* FileFormat::to_symbol
to_symbol(format) ==
    CASE format = "Pdf" -> Str(<<"p", "d", "f">>)
      [] format = "Docx" -> Str(<<"d", "o", "c", "x">>)
      [] format = "Xlsx" -> Str(<<"x", "l", "s", "x">>)
      [] format = "Xls" -> Str(<<"x", "l", "s">>)
      [] format = "Pptx" -> Str(<<"p", "p", "t", "x">>)
      [] format = "Png" -> Str(<<"p", "n", "g">>)
      [] format = "Jpeg" -> Str(<<"j", "p", "e", "g">>)
      [] format = "Tiff" -> Str(<<"t", "i", "f", "f">>)
      [] format = "Bmp" -> Str(<<"b", "m", "p">>)
      [] format = "Json" -> Str(<<"j", "s", "o", "n">>)
      [] format = "Xml" -> Str(<<"x", "m", "l">>)
      [] format = "Html" -> Str(<<"x", "m", "l">>)
      [] format = "Text" -> Str(<<"t", "e", "x", "t">>)
      [] format = "Unknown" -> Str(<<"u", "n", "k", "n", "o", "w", "n">>)

\* Variant: the list without "htm".
supported_extensions_short ==
    <<Str(<<"p", "d", "f">>), Str(<<"d", "o", "c", "x">>), Str(<<"x", "l", "s", "x">>),
      Str(<<"x", "l", "s">>), Str(<<"p", "p", "t", "x">>),
      Str(<<"p", "n", "g">>), Str(<<"j", "p", "g">>), Str(<<"j", "p", "e", "g">>),
      Str(<<"t", "i", "f", "f">>), Str(<<"t", "i", "f">>), Str(<<"b", "m", "p">>),
      Str(<<"j", "s", "o", "n">>), Str(<<"x", "m", "l">>), Str(<<"h", "t", "m", "l">>),
      Str(<<"t", "x", "t">>), Str(<<"t", "e", "x", "t">>), Str(<<"m", "d">>),
      Str(<<"m", "a", "r", "k", "d", "o", "w", "n">>), Str(<<"c", "s", "v">>)>>

\* FormatDetector::supported_extensions
supported_extensions ==
    <<Str(<<"p", "d", "f">>), Str(<<"d", "o", "c", "x">>), Str(<<"x", "l", "s", "x">>),
      Str(<<"x", "l", "s">>), Str(<<"p", "p", "t", "x">>),
      Str(<<"p", "n", "g">>), Str(<<"j", "p", "g">>), Str(<<"j", "p", "e", "g">>),
      Str(<<"t", "i", "f", "f">>), Str(<<"t", "i", "f">>), Str(<<"b", "m", "p">>),
      Str(<<"j", "s", "o", "n">>), Str(<<"x", "m", "l">>), Str(<<"h", "t", "m", "l">>),
      Str(<<"h", "t", "m">>),
      Str(<<"t", "x", "t">>), Str(<<"t", "e", "x", "t">>), Str(<<"m", "d">>),
      Str(<<"m", "a", "r", "k", "d", "o", "w", "n">>), Str(<<"c", "s", "v">>)>>

----------------------------------------------------------------------------
(* parser.rs: the configuration *)

\* impl Default for ParserConfig
DefaultConfig ==
    [strict_mode |-> FALSE, max_depth |-> 100, encoding |-> "UTF-8",
     max_size |-> 100 * 1024 * 1024]

\* Parser::new: the options given override the defaults, key by key.
new(options) ==
    IF options = None THEN DefaultConfig
    ELSE [k \in DOMAIN DefaultConfig |->
            IF k \in DOMAIN options[1] THEN options[1][k] ELSE DefaultConfig[k]]

----------------------------------------------------------------------------
(* parser.rs: errors and the decoding capabilities *)

\* Parser::runtime_error: a RuntimeError whose message is "context: err".
runtime_error(context, err) ==
    [kind |-> "err", class |-> "RuntimeError", message |-> <<context, err>>]

\* Parser::argument_error
argument_error(msg) ==
    [kind |-> "err", class |-> "ArgumentError", message |-> <<msg>>]

\* Parser::io_error: an IOError whose message is "context: err".
io_error(context, err) ==
    [kind |-> "err", class |-> "IOError", message |-> <<context, err>>]

Ok(text) == [kind |-> "ok", text |-> text]

\* The code points with the White_Space property, which str::trim removes.
WhiteSpaceChars ==
    {9, 10, 11, 12, 13, 32, 133, 160, 5760, 8232, 8233, 8239, 8287, 12288}
    \cup (8192..8202)

\* str::trim
trim(s) ==
    LET kept == {k \in 1..Len(s) : s[k] \notin WhiteSpaceChars}
    IN  IF kept = {} THEN <<>>
        ELSE SubSeq(s, CHOOSE k \in kept : \A j \in kept : k <= j,
                       CHOOSE k \in kept : \A j \in kept : j <= k)

\* What a library that decodes a format does with a buffer is not part of
\* this program: it yields some text or fails with some error.
LibOutcomes ==
    {[ok |-> TRUE, text |-> <<>>],
     [ok |-> TRUE, text |-> Str(<<" ", "h", "i", " ">>) \o <<10>>],
     [ok |-> FALSE, stage |-> "load", error |-> "malformed"]}

\* The text parse_pdf returns for a document without text.
PDF_NO_TEXT ==
    Str(<<
          "P", "D", "F", " ", "c", "o", "n", "t", "a", "i", "n", "s", " ",
          "n", "o", " ", "e", "x", "t", "r", "a", "c", "t", "a", "b", "l",
          "e", " ", "t", "e", "x", "t", " ", "(", "m", "i", "g", "h", "t",
          " ", "b", "e", " ", "s", "c", "a", "n", "n", "e", "d", "/", "i",
          "m", "a", "g", "e", "-", "b", "a", "s", "e", "d", ")">>)

\* Parser::parse_pdf
parse_pdf(data, lib) ==
    IF ~lib.ok THEN runtime_error("Failed to parse PDF", lib.error)
    ELSE IF lib.text = <<>>
    THEN Ok(PDF_NO_TEXT)
    ELSE Ok(trim(lib.text))

\* Parser::parse_docx
parse_docx(data, lib) ==
    IF ~lib.ok THEN runtime_error("Failed to parse DOCX file", lib.error)
    ELSE Ok(trim(lib.text))

\* Parser::parse_pptx
parse_pptx(data, lib) ==
    IF ~lib.ok THEN runtime_error("Failed to open PPTX as ZIP", lib.error)
    ELSE Ok(lib.text)

\* Parser::parse_xlsx
parse_xlsx(data, lib) ==
    IF ~lib.ok THEN runtime_error("Failed to parse Excel file", lib.error)
    ELSE Ok(lib.text)

\* Parser::parse_json: text that is no JSON is returned as it is.
parse_json(data, lib) ==
    IF ~lib.ok THEN Ok(from_utf8_lossy(data)) ELSE Ok(lib.text)

\* Parser::parse_xml
parse_xml(data, lib) ==
    IF ~lib.ok THEN runtime_error("XML parse error", lib.error)
    ELSE Ok(trim(lib.text))

\* Parser::ocr_image
ocr_image(data, lib) ==
    IF ~lib.ok
    THEN runtime_error(CASE lib.stage = "init" -> "Failed to initialize Tesseract"
                         [] lib.stage = "load" -> "Failed to load image"
                         [] lib.stage = "set" -> "Failed to set image"
                         [] OTHER -> "Failed to perform OCR",
                       lib.error)
    ELSE Ok(trim(lib.text))

\* Encoding::for_bom: the encoding a byte order mark names, and its length.
for_bom(bytes) ==
    IF starts_with(bytes, <<239, 187, 191>>) THEN Some([encoding |-> "UTF-8", len |-> 3])
    ELSE IF starts_with(bytes, <<255, 254>>) THEN Some([encoding |-> "UTF-16LE", len |-> 2])
    ELSE IF starts_with(bytes, <<254, 255>>) THEN Some([encoding |-> "UTF-16BE", len |-> 2])
    ELSE None

\* The windows-1252 code points of the bytes 0x80..0x9F.
WINDOWS_1252_HIGH ==
    <<8364, 129, 8218, 402, 8222, 8230, 8224, 8225, 710, 8240, 352, 8249, 338, 141,
      381, 143, 144, 8216, 8217, 8220, 8221, 8226, 8211, 8212, 732, 8482, 353, 8250,
      339, 157, 382, 376>>

\* Decoding windows-1252: every byte is a character, none is malformed.
decode_windows_1252(bytes) ==
    [text |-> [i \in 1..Len(bytes) |->
                 IF bytes[i] >= 128 /\ bytes[i] <= 159
                 THEN WINDOWS_1252_HIGH[bytes[i] - 127] ELSE bytes[i]],
     malformed |-> FALSE]

RECURSIVE MalformedFrom(_, _)
\* Some sequence from byte i on is malformed.
MalformedFrom(s, i) ==
    IF i > Len(s) THEN FALSE
    ELSE IF s[i] < 128 THEN MalformedFrom(s, AsciiRunEnd(s, i))
    ELSE Utf8Step(s, i).bad \/ MalformedFrom(s, i + Utf8Step(s, i).len)

\* Decoding UTF-8: malformed sequences become U+FFFD, as in lossy decoding.
decode_utf_8(bytes) ==
    [text |-> from_utf8_lossy(bytes), malformed |-> MalformedFrom(bytes, 1)]

RECURSIVE Utf16Chars(_, _)
\* The characters of UTF-16 code units from unit i on: a pair of surrogates
\* is one character, a lone surrogate is malformed (written -1 here).
Utf16Chars(units, i) ==
    IF i > Len(units) THEN <<>>
    ELSE IF /\ units[i] >= 55296 /\ units[i] <= 56319 /\ i < Len(units)
            /\ units[i + 1] >= 56320 /\ units[i + 1] <= 57343
    THEN <<65536 + (units[i] - 55296) * 1024 + (units[i + 1] - 56320)>>
         \o Utf16Chars(units, i + 2)
    ELSE IF units[i] >= 55296 /\ units[i] <= 57343
    THEN <<-1>> \o Utf16Chars(units, i + 1)
    ELSE <<units[i]>> \o Utf16Chars(units, i + 1)

\* Decoding UTF-16, little or big endian: malformed units and an odd last
\* byte become U+FFFD.
decode_utf_16(bytes, le) ==
    LET units == [k \in 1..(Len(bytes) \div 2) |->
                    IF le THEN bytes[2 * k - 1] + 256 * bytes[2 * k]
                          ELSE 256 * bytes[2 * k - 1] + bytes[2 * k]]
        chars == Utf16Chars(units, 1)
                 \o (IF Len(bytes) % 2 = 1 THEN <<-1>> ELSE <<>>)
    IN  [text |-> [k \in 1..Len(chars) |->
                     IF chars[k] = -1 THEN REPLACEMENT ELSE chars[k]],
         malformed |-> \E k \in 1..Len(chars) : chars[k] = -1]

\* Encoding::decode: a byte order mark at the start of the buffer is removed
\* and decides the encoding; without one the encoding asked for is used.
decode(encoding, bytes) ==
    LET bom == for_bom(bytes)
        used == IF bom = None THEN encoding ELSE bom[1].encoding
        rest == IF bom = None THEN bytes ELSE SubSeq(bytes, bom[1].len + 1, Len(bytes))
    IN  CASE used = "UTF-8" -> decode_utf_8(rest)
          [] used = "UTF-16LE" -> decode_utf_16(rest, TRUE)
          [] used = "UTF-16BE" -> decode_utf_16(rest, FALSE)
          [] OTHER -> decode_windows_1252(rest)

\* Parser::parse_text
parse_text(data) ==
    IF decode("UTF-8", data).malformed
    THEN Ok(decode("windows-1252", data).text)
    ELSE Ok(decode("UTF-8", data).text)

\* Variant: the tag of the format detected, for every format.
detect_format_from_bytes_canonical(data) == to_symbol(detect_from_content(data))

\* Parser::detect_format_from_bytes: the tag of the format the content has,
\* but "xlsx" for the legacy spreadsheet.
detect_format_from_bytes(data) ==
    LET format == detect_from_content(data) IN
    IF format = "Xls" THEN Str(<<"x", "l", "s", "x">>) ELSE to_symbol(format)

\* Parser::detect_format_from_filename
detect_format_from_filename(filename) == to_symbol(detect_from_extension(filename))

\* Parser::supported_formats
supported_formats == supported_extensions

\* Parser::supports_file
supports_file(path) ==
    LET ext == extension(path) IN
    IF ext = None THEN FALSE
    ELSE \E k \in 1..Len(supported_formats) :
            supported_formats[k] = to_lowercase(ext[1])

\* The token parse appends in strict mode: format!("{} strict=true", ..).
STRICT_MARKER == Str(<<" ", "s", "t", "r", "i", "c", "t", "=", "t", "r", "u", "e">>)

\* Variant: an input of nothing but whitespace is turned away like the
\* empty one.
parse_blank_is_empty(cfg, input) ==
    IF trim(input) = <<>> THEN argument_error("Input cannot be empty")
    ELSE IF cfg.strict_mode THEN Ok(trim(input) \o STRICT_MARKER)
    ELSE Ok(trim(input))

\* Parser::parse
parse(cfg, input) ==
    IF input = <<>> THEN argument_error("Input cannot be empty")
    ELSE IF cfg.strict_mode THEN Ok(trim(input) \o STRICT_MARKER)
    ELSE Ok(trim(input))

\* Variant: the legacy spreadsheet is decoded as text.
dispatch_xls_as_text(format, data, lib) ==
    CASE format = "Pdf" -> [capability |-> "parse_pdf", result |-> parse_pdf(data, lib)]
      [] format = "Docx" -> [capability |-> "parse_docx", result |-> parse_docx(data, lib)]
      [] format = "Pptx" -> [capability |-> "parse_pptx", result |-> parse_pptx(data, lib)]
      [] format = "Xlsx" -> [capability |-> "parse_xlsx", result |-> parse_xlsx(data, lib)]
      [] format = "Json" -> [capability |-> "parse_json", result |-> parse_json(data, lib)]
      [] format \in {"Xml", "Html"} ->
            [capability |-> "parse_xml", result |-> parse_xml(data, lib)]
      [] format \in {"Png", "Jpeg", "Tiff", "Bmp"} ->
            [capability |-> "ocr_image", result |-> ocr_image(data, lib)]
      [] format \in {"Text", "Unknown", "Xls"} ->
            [capability |-> "parse_text", result |-> parse_text(data)]

\* Variant: when the capability fails, the buffer is decoded as text instead.
dispatch_with_text_fallback(format, data, lib) ==
    LET routed == dispatch_xls_as_text(IF format = "Xls" THEN "Xlsx" ELSE format,
                                       data, lib)
    IN  IF routed.result.kind = "err"
        THEN [capability |-> routed.capability, result |-> parse_text(data)]
        ELSE routed

\* Parser::dispatch_to_parser: the capability invoked and what it returns.
dispatch_to_parser(format, data, lib) ==
    CASE format = "Pdf" -> [capability |-> "parse_pdf", result |-> parse_pdf(data, lib)]
      [] format = "Docx" -> [capability |-> "parse_docx", result |-> parse_docx(data, lib)]
      [] format = "Pptx" -> [capability |-> "parse_pptx", result |-> parse_pptx(data, lib)]
      [] format \in {"Xlsx", "Xls"} ->
            [capability |-> "parse_xlsx", result |-> parse_xlsx(data, lib)]
      [] format = "Json" -> [capability |-> "parse_json", result |-> parse_json(data, lib)]
      [] format \in {"Xml", "Html"} ->
            [capability |-> "parse_xml", result |-> parse_xml(data, lib)]
      [] format \in {"Png", "Jpeg", "Tiff", "Bmp"} ->
            [capability |-> "ocr_image", result |-> ocr_image(data, lib)]
      [] format \in {"Text", "Unknown"} ->
            [capability |-> "parse_text", result |-> parse_text(data)]

\* A Vec<u8>: the bytes given one by one, followed by `fill` zero bytes.
data_len(buf) == Len(buf.bytes) + buf.fill

Contents(buf) == buf.bytes \o [i \in 1..buf.fill |-> 0]

\* Variant: a buffer of exactly max_size bytes is rejected too.
exceeds_limit_inclusive(cfg, buf) == data_len(buf) >= cfg.max_size

\* Variant: max_depth is a second limit on the length of the buffer.
exceeds_limit_or_depth(cfg, buf) ==
    data_len(buf) > cfg.max_size \/ data_len(buf) > cfg.max_depth

\* if data.len() > self.config.max_size
exceeds_limit(cfg, buf) == data_len(buf) > cfg.max_size

\* Parser::parse_bytes_internal: the result, and the steps taken to reach it
\* (the format detected, the capability invoked).
parse_bytes_internal(cfg, buf, filename, lib) ==
    IF exceeds_limit(cfg, buf)
    THEN /\ result' = runtime_error("File size exceeds limit",
                                    [actual |-> data_len(buf), limit |-> cfg.max_size])
         /\ trace' = <<>>
    ELSE \E data \in {Contents(buf)} :
         \E format \in {detect(filename, Some(data))} :
            IF format = "Panic"
            THEN /\ result' = [kind |-> "panic"]
                 /\ trace' = <<[step |-> "detect", format |-> format]>>
            ELSE \E routed \in {dispatch_to_parser(format, data, lib)} :
                 /\ result' = routed.result
                 /\ trace' = <<[step |-> "detect", format |-> format],
                               [step |-> "decode", capability |-> routed.capability]>>

----------------------------------------------------------------------------
(* The inputs the operations are applied to *)

\* The longest sequence of fragments appended to the start of a buffer.
MaxTrail == 2

\* How the buffers start: every signature, whole and cut short by a byte, in
\* both letter cases where the test ignores case, and bytes no test knows
\* (among them a UTF-8 and a UTF-16 byte order mark).
Heads ==
    {<<>>,
     PDF_MAGIC, SubSeq(PDF_MAGIC, 1, 3),
     PNG_MAGIC, SubSeq(PNG_MAGIC, 1, 7),
     JPEG_MAGIC, SubSeq(JPEG_MAGIC, 1, 2),
     BMP_MAGIC, SubSeq(BMP_MAGIC, 1, 1),
     TIFF_LE_MAGIC, TIFF_BE_MAGIC, SubSeq(TIFF_LE_MAGIC, 1, 3),
     OLE_MAGIC, SubSeq(OLE_MAGIC, 1, 3),
     ZIP_MAGIC, SubSeq(ZIP_MAGIC, 1, 1),
     Str(<<"<", "?", "x", "m", "l">>), Str(<<"<", "?", "x", "m">>),
     Str(<<"<", "?", "X", "M", "L">>),
     Str(<<"<", "!">>), Str(<<"<", "!", "-", "-", " ">>),
     Str(<<"<", "!", "d", "o", "c", "t", "y", "p", "e">>),
     Str(<<"<", "!", "D", "O", "C", "T", "Y", "P", "E">>),
     Str(<<"<", "h", "t", "m", "l">>), Str(<<"<", "H", "t", "M", "L">>),
     Str(<<"<", "h", "t", "m">>),
     Str(<<" ", "<", "!", "d", "o", "c", "t", "y", "p", "e">>),
     Str(<<"{">>), Str(<<"[">>), Str(<<" ">>), <<9, 10, 13, 32>>,
     Str(<<"a">>), <<255>>, <<226, 132, 170>>, <<0>>,
     <<239, 187, 191>>, <<255, 254, 104, 0>>}

\* What may follow: the Office markers, the HTML signature, a brace, and nine
\* bytes of text, one of them no UTF-8 (with <html they fill the 14 bytes the
\* HTML test reads).
TrailAtoms ==
    {Str(<<"w", "o", "r", "d", "/">>), Str(<<"x", "l", "/">>),
     Str(<<"p", "p", "t", "/">>),
     Str(<<"<", "h", "t", "m", "l">>),
     Str(<<"{">>),
     Str(<<"-", "1", ".", "4">>) \o <<233>> \o Str(<<"b", "c", "d", "e">>)}

RECURSIVE Trails(_)
Trails(n) ==
    IF n = 0 THEN {<<>>}
    ELSE LET shorter == Trails(n - 1)
         IN  shorter \cup {a \o t : a \in TrailAtoms, t \in shorter}

ShortBuffers == {h \o t : h \in Heads, t \in Trails(MaxTrail)}

Markers ==
    {Str(<<"w", "o", "r", "d", "/">>), Str(<<"x", "l", "/">>),
     Str(<<"p", "p", "t", "/">>)}

RECURSIVE MarkerTrails(_)
MarkerTrails(n) ==
    IF n = 0 THEN {<<>>}
    ELSE LET shorter == MarkerTrails(n - 1)
         IN  shorter \cup {a \o t : a \in Markers, t \in shorter}

Padding(n) == [i \in 1..n |-> Ord("a")]

\* ZIP buffers that reach the end of the window detect_office_format reads:
\* the first marker ends at, or up to five bytes beyond, byte OFFICE_WINDOW.
LongBuffers ==
    {ZIP_MAGIC \o Padding(OFFICE_WINDOW - k) \o t :
        k \in 2..7, t \in MarkerTrails(MaxTrail) \ {<<>>}}

Buffers == ShortBuffers \cup LongBuffers

\* File names: the extensions in both letter cases, none, an unknown one,
\* several dots, a leading dot, directories with dots, letters beyond ASCII
\* whose other case is an ASCII letter (U+0131, U+017F, U+212A), and paths
\* that end in "." or "..".
Filenames ==
    {Str(<<"a", ".", "p", "d", "f">>), Str(<<"A", ".", "P", "D", "F">>),
     Str(<<"n", "o", "t", "e", ".", "t", "x", "t">>),
     Str(<<"a", ".", "p", "d", "f", ".", "t", "x", "t">>),
     Str(<<"a", ".", "t", "x", "t", ".", "p", "n", "g">>),
     Str(<<"d", ".", "D", "o", "c", "x">>),
     Str(<<"i", ".", "h", "t", "m", "l">>),
     Str(<<"j", ".", "j", "s", "o", "n">>),
     Str(<<"r", ".", "m", "d">>),
     Str(<<"n", "o", "e", "x", "t">>),
     Str(<<"x", ".", "z", "z", "z">>),
     Str(<<".", "p", "d", "f">>),
     Str(<<"d", ".", "p", "d", "f", "/", "f">>),
     Str(<<"d", "/", "f", ".", "x", "l", "s", "/">>),
     Str(<<"a", ".">>),
     Str(<<"A", ".", "T", "I", "F">>),
     Str(<<"a", ".", "t">>) \o <<305>> \o Str(<<"f">>),
     Str(<<"a", ".", "c">>) \o <<383>> \o Str(<<"v">>),
     Str(<<"x", ".", "m", "a", "r">>) \o <<8490>> \o Str(<<"d", "o", "w", "n">>),
     Str(<<"a", ".", "p", "d", "f", "/", ".", ".">>),
     Str(<<"a", ".", "p", "d", "f", "/", ".">>),
     <<>>}

OptFilenames == {None} \cup {Some(f) : f \in Filenames}

\* The file names detect is given: a known extension in both cases, one that
\* maps to Text, one that maps to Html, an unknown one, none.
DetectFilenames ==
    {None,
     Some(Str(<<"a", ".", "p", "d", "f">>)), Some(Str(<<"A", ".", "P", "D", "F">>)),
     Some(Str(<<"n", "o", "t", "e", ".", "t", "x", "t">>)),
     Some(Str(<<"i", ".", "h", "t", "m", "l">>)),
     Some(Str(<<"n", "o", "e", "x", "t">>)),
     Some(Str(<<"x", ".", "z", "z", "z">>))}

----------------------------------------------------------------------------
(* The state: a caller invokes one operation at a time (pc), and the call, *)
(* its result and the steps it took stay visible until the caller takes    *)
(* the result.                                                             *)

NoCall == [op |-> "none"]

NoResult == [kind |-> "none"]

\* The value a detector function hands back, or the panic that ends it.
Returned(format) ==
    IF format = "Panic" THEN [kind |-> "panic"]
    ELSE [kind |-> "format", format |-> format]

\* No options: the detector is used without a Parser's configuration.
InitDetect ==
    /\ config = DefaultConfig
    /\ pc = "idle"
    /\ call = NoCall
    /\ result = NoResult
    /\ trace = <<>>

\* FormatDetector::detect(filename, content)
Detect ==
    /\ pc = "idle"
    /\ \E filename \in DetectFilenames, content \in {None} \cup {Some(d) : d \in Buffers} :
        /\ call' = [op |-> "detect", filename |-> filename, content |-> content]
        /\ result' = Returned(detect(filename, content))
    /\ pc' = "done"
    /\ UNCHANGED <<config, trace>>

\* FormatDetector::detect_from_content(data)
DetectFromContent ==
    /\ pc = "idle"
    /\ \E data \in Buffers :
        /\ call' = [op |-> "detect_from_content", content |-> Some(data)]
        /\ result' = Returned(detect_from_content(data))
    /\ pc' = "done"
    /\ UNCHANGED <<config, trace>>

\* FormatDetector::detect_from_extension(filename)
DetectFromExtension ==
    /\ pc = "idle"
    /\ \E filename \in Filenames :
        /\ call' = [op |-> "detect_from_extension", filename |-> Some(filename)]
        /\ result' = Returned(detect_from_extension(filename))
    /\ pc' = "done"
    /\ UNCHANGED <<config, trace>>

\* The caller takes the result; the next call can begin.
Return ==
    /\ pc = "done"
    /\ pc' = "idle"
    /\ call' = NoCall
    /\ result' = NoResult
    /\ trace' = <<>>
    /\ UNCHANGED config

\* FileFormat::to_symbol
ToSymbol ==
    /\ pc = "idle"
    /\ \E format \in FileFormat :
        /\ call' = [op |-> "to_symbol", format |-> format]
        /\ result' = [kind |-> "tag", tag |-> to_symbol(format)]
    /\ pc' = "done"
    /\ UNCHANGED <<config, trace>>

\* FormatDetector::supported_extensions
SupportedExtensions ==
    /\ pc = "idle"
    /\ call' = [op |-> "supported_extensions"]
    /\ result' = [kind |-> "list", list |-> supported_extensions]
    /\ pc' = "done"
    /\ UNCHANGED <<config, trace>>

NextDetect ==
    \/ Detect \/ DetectFromContent \/ DetectFromExtension
    \/ ToSymbol \/ SupportedExtensions
    \/ Return

SpecDetect == InitDetect /\ [][NextDetect]_vars

----------------------------------------------------------------------------
(* The Parser: constructed once with some options, then called *)

\* The longest sequence of fragments appended to the start of a buffer that
\* is given to a Parser.
MaxParserTrail == 1

\* The options hashes a Parser is made with: none, and hashes that set some
\* of the keys. The size limits are lengths of buffers below.
OptionSets ==
    {None,
     Some([strict_mode |-> TRUE]),
     Some([max_size |-> 0]),
     Some([max_size |-> 5, encoding |-> "ISO-8859-1"]),
     Some([max_depth |-> 7, max_size |-> 14, strict_mode |-> FALSE])}

\* A buffer of 101 MiB: %PDF and zero bytes.
HugeBuffer == [bytes |-> PDF_MAGIC, fill |-> 101 * 1024 * 1024 - Len(PDF_MAGIC)]

ParserBuffers ==
    {[bytes |-> h \o t, fill |-> 0] : h \in Heads, t \in Trails(MaxParserTrail)}
    \cup {HugeBuffer}

\* The paths parse_file is given.
Paths ==
    {Str(<<"a", ".", "p", "d", "f">>),
     Str(<<"n", "o", "t", "e", ".", "t", "x", "t">>),
     Str(<<"i", ".", "H", "T", "M">>),
     Str(<<"n", "o", "e", "x", "t">>)}

\* What std::fs::read gives for a path: an error, or the bytes of the file.
ReadOutcomes ==
    {[ok |-> FALSE, error |-> "No such file or directory (os error 2)"]}
    \cup {[ok |-> TRUE, data |-> b] : b \in ParserBuffers}

Init ==
    /\ config \in {new(options) : options \in OptionSets}
    /\ pc = "idle"
    /\ call = NoCall
    /\ result = NoResult
    /\ trace = <<>>

\* Parser::parse_bytes
ParseBytes ==
    /\ pc = "idle"
    /\ \E buf \in ParserBuffers, lib \in LibOutcomes :
        /\ call' = [op |-> "parse_bytes", data |-> buf, filename |-> None,
                    config |-> config, lib |-> lib]
        /\ IF data_len(buf) = 0
           THEN /\ result' = argument_error("Data cannot be empty")
                /\ trace' = <<>>
           ELSE parse_bytes_internal(config, buf, None, lib)
    /\ pc' = "done"
    /\ UNCHANGED config

\* Variant: the module-level function turns the empty buffer away as the
\* method does.
ParseBytesDirectChecked ==
    /\ pc = "idle"
    /\ \E buf \in ParserBuffers, lib \in LibOutcomes :
        /\ call' = [op |-> "parse_bytes_direct", data |-> buf, filename |-> None,
                    config |-> DefaultConfig, lib |-> lib]
        /\ IF data_len(buf) = 0
           THEN /\ result' = argument_error("Data cannot be empty")
                /\ trace' = <<>>
           ELSE parse_bytes_internal(DefaultConfig, buf, None, lib)
    /\ pc' = "done"
    /\ UNCHANGED config

\* parse_bytes_direct: the module-level function, with the default configuration
ParseBytesDirect ==
    /\ pc = "idle"
    /\ \E buf \in ParserBuffers, lib \in LibOutcomes :
        /\ call' = [op |-> "parse_bytes_direct", data |-> buf, filename |-> None,
                    config |-> DefaultConfig, lib |-> lib]
        /\ parse_bytes_internal(DefaultConfig, buf, None, lib)
    /\ pc' = "done"
    /\ UNCHANGED config

\* Variant: the bytes read are parsed without the name of the file.
ParseFileNoName ==
    /\ pc = "idle"
    /\ \E path \in Paths, read \in ReadOutcomes, lib \in LibOutcomes :
        IF ~read.ok
        THEN /\ call' = [op |-> "parse_file", path |-> path, read |-> "failed"]
             /\ result' = io_error("Failed to read file", read.error)
             /\ trace' = <<>>
        ELSE /\ call' = [op |-> "parse_file", path |-> path, data |-> read.data,
                          filename |-> Some(path), config |-> config, lib |-> lib]
             /\ parse_bytes_internal(config, read.data, None, lib)
    /\ pc' = "done"
    /\ UNCHANGED config

\* Parser::parse_file
ParseFile ==
    /\ pc = "idle"
    /\ \E path \in Paths, read \in ReadOutcomes, lib \in LibOutcomes :
        IF ~read.ok
        THEN /\ call' = [op |-> "parse_file", path |-> path, read |-> "failed"]
             /\ result' = io_error("Failed to read file", read.error)
             /\ trace' = <<>>
        ELSE /\ call' = [op |-> "parse_file", path |-> path, data |-> read.data,
                          filename |-> Some(path), config |-> config, lib |-> lib]
             /\ parse_bytes_internal(config, read.data, Some(path), lib)
    /\ pc' = "done"
    /\ UNCHANGED config

\* parse_file_direct: the module-level function, a Parser with the default
\* configuration and its parse_file
ParseFileDirect ==
    /\ pc = "idle"
    /\ \E path \in Paths, read \in ReadOutcomes, lib \in LibOutcomes :
        IF ~read.ok
        THEN /\ call' = [op |-> "parse_file_direct", path |-> path, read |-> "failed"]
             /\ result' = io_error("Failed to read file", read.error)
             /\ trace' = <<>>
        ELSE /\ call' = [op |-> "parse_file_direct", path |-> path, data |-> read.data,
                          filename |-> Some(path), config |-> DefaultConfig,
                          lib |-> lib]
             /\ parse_bytes_internal(DefaultConfig, read.data, Some(path), lib)
    /\ pc' = "done"
    /\ UNCHANGED config

\* The strings parse is given: empty, whitespace only, text with whitespace
\* around it and inside it, whitespace beyond ASCII (U+00A0, U+3000), and
\* U+200B, which looks like whitespace and is none.
Strings ==
    {<<>>,
     Str(<<" ">>),
     <<10, 9, 13, 32>>,
     Str(<<"h", "i">>),
     Str(<<" ", " ", "h", "i", " ", " ">>),
     Str(<<" ", "a", " ", "b">>) \o <<10>>,
     <<160>> \o Str(<<"h", "i">>) \o <<12288>>,
     <<8203>> \o Str(<<"x", " ">>),
     <<12288>>}

\* Parser::parse
Parse ==
    /\ pc = "idle"
    /\ \E input \in Strings :
        /\ call' = [op |-> "parse", input |-> input, config |-> config]
        /\ result' = parse(config, input)
    /\ trace' = <<>>
    /\ pc' = "done"
    /\ UNCHANGED config

\* The buffers a capability is given directly.
TextBuffers == {b.bytes : b \in {x \in ParserBuffers : x.fill = 0}}

\* Parser::parse_text, as a method of its own
ParseText ==
    /\ pc = "idle"
    /\ \E data \in TextBuffers :
        /\ call' = [op |-> "parse_text", data |-> data]
        /\ result' = parse_text(data)
    /\ trace' = <<>>
    /\ pc' = "done"
    /\ UNCHANGED config

\* Parser::detect_format_from_bytes
DetectFormatFromBytes ==
    /\ pc = "idle"
    /\ \E data \in TextBuffers :
        /\ call' = [op |-> "detect_format_from_bytes", data |-> data]
        /\ result' = [kind |-> "tag", tag |-> detect_format_from_bytes(data)]
    /\ trace' = <<>>
    /\ pc' = "done"
    /\ UNCHANGED config

\* Parser::detect_format_from_filename
DetectFormatFromFilename ==
    /\ pc = "idle"
    /\ \E filename \in Filenames :
        /\ call' = [op |-> "detect_format_from_filename", filename |-> filename]
        /\ result' = [kind |-> "tag", tag |-> detect_format_from_filename(filename)]
    /\ trace' = <<>>
    /\ pc' = "done"
    /\ UNCHANGED config

\* Parser::supported_formats
SupportedFormats ==
    /\ pc = "idle"
    /\ call' = [op |-> "supported_formats"]
    /\ result' = [kind |-> "list", list |-> supported_formats]
    /\ trace' = <<>>
    /\ pc' = "done"
    /\ UNCHANGED config

\* Parser::supports_file
SupportsFile ==
    /\ pc = "idle"
    /\ \E path \in Filenames :
        /\ call' = [op |-> "supports_file", path |-> path]
        /\ result' = [kind |-> "bool", value |-> supports_file(path)]
    /\ trace' = <<>>
    /\ pc' = "done"
    /\ UNCHANGED config

\* Parser::config: a hash of the four fields
GetConfig ==
    /\ pc = "idle"
    /\ call' = [op |-> "config"]
    /\ result' = [kind |-> "hash", hash |-> config]
    /\ trace' = <<>>
    /\ pc' = "done"
    /\ UNCHANGED config

\* Parser::strict_mode
StrictMode ==
    /\ pc = "idle"
    /\ call' = [op |-> "strict_mode?"]
    /\ result' = [kind |-> "bool", value |-> config.strict_mode]
    /\ trace' = <<>>
    /\ pc' = "done"
    /\ UNCHANGED config

Next ==
    \/ ParseBytes \/ ParseBytesDirect \/ ParseFile \/ ParseFileDirect \/ Parse
    \/ ParseText
    \/ DetectFormatFromBytes \/ DetectFormatFromFilename
    \/ SupportedFormats \/ SupportsFile
    \/ GetConfig \/ StrictMode
    \/ Return

Spec == Init /\ [][Next]_vars

----------------------------------------------------------------------------
(* One Parser called by several callers at once: every method takes &self,  *)
(* so the calls share the configuration and nothing else. A call is taken   *)
(* apart into the steps of its method; the steps of the callers interleave. *)
(* Here pc, call, result and trace hold one value for each caller.          *)

Callers == {"a", "b"}

\* The buffers of the concurrent calls: empty, a text, a signature, and a
\* text longer than the smaller size limits.
SharedBuffers ==
    {[bytes |-> <<>>, fill |-> 0],
     [bytes |-> Str(<<"a">>), fill |-> 0],
     [bytes |-> PDF_MAGIC, fill |-> 0],
     [bytes |-> Str(<<"{", "a", "b", "c", "d", "e">>), fill |-> 0]}

SharedLibOutcomes == {o \in LibOutcomes : ~o.ok \/ o.text = <<>>}

SharedReadOutcomes ==
    {r \in ReadOutcomes : ~r.ok} \cup {[ok |-> TRUE, data |-> b] : b \in SharedBuffers}

\* The calls a caller can make on the Parser.
SharedCalls ==
    {[op |-> "parse", input |-> s] : s \in {<<>>, Str(<<" ", "h", "i", " ">>)}}
    \cup {[op |-> "parse_bytes", data |-> b, filename |-> None, lib |-> o] :
            b \in SharedBuffers, o \in SharedLibOutcomes}
    \cup {[op |-> "parse_file", path |-> Str(<<"a", ".", "p", "d", "f">>),
            read |-> r, lib |-> o] :
            r \in SharedReadOutcomes,
            o \in SharedLibOutcomes}
    \cup {[op |-> "detect_format_from_bytes", data |-> b.bytes] : b \in SharedBuffers}
    \cup {[op |-> "detect_format_from_filename", filename |-> f] :
            f \in {Str(<<"a", ".", "p", "d", "f">>), Str(<<"n", "o", "e", "x", "t">>)}}
    \cup {[op |-> "config"], [op |-> "strict_mode?"]}

InitConcurrent ==
    /\ config \in {new(options) : options \in OptionSets}
    /\ pc = [c \in Callers |-> "idle"]
    /\ call = [c \in Callers |-> NoCall]
    /\ result = [c \in Callers |-> NoResult]
    /\ trace = [c \in Callers |-> <<>>]

\* A caller invokes a method.
Begin(c) ==
    /\ pc[c] = "idle"
    /\ \E k \in SharedCalls :
        /\ call' = [call EXCEPT ![c] = k]
        /\ pc' = [pc EXCEPT ![c] =
                    IF k.op \in {"parse_bytes", "parse_file"} THEN "enter" ELSE "run"]
    /\ UNCHANGED <<config, result, trace>>

\* The buffer a call of parse_bytes or parse_file works on.
BufferOf(k) == IF k.op = "parse_file" THEN k.read.data ELSE k.data

\* Variant: the size limit is used up by the bytes parsed.
EnterCharged(c) ==
    /\ pc[c] = "enter"
    /\ IF call[c].op = "parse_file" /\ ~call[c].read.ok
       THEN /\ result' = [result EXCEPT ![c] =
                            io_error("Failed to read file", call[c].read.error)]
            /\ pc' = [pc EXCEPT ![c] = "done"]
            /\ UNCHANGED config
       ELSE IF call[c].op = "parse_bytes" /\ data_len(call[c].data) = 0
       THEN /\ result' = [result EXCEPT ![c] = argument_error("Data cannot be empty")]
            /\ pc' = [pc EXCEPT ![c] = "done"]
            /\ UNCHANGED config
       ELSE IF exceeds_limit(config, BufferOf(call[c]))
       THEN /\ result' = [result EXCEPT ![c] =
                            runtime_error("File size exceeds limit",
                                          [actual |-> data_len(BufferOf(call[c])),
                                           limit |-> config.max_size])]
            /\ pc' = [pc EXCEPT ![c] = "done"]
            /\ UNCHANGED config
       ELSE /\ pc' = [pc EXCEPT ![c] = "detect"]
            /\ config' = [config EXCEPT !.max_size = @ - data_len(BufferOf(call[c]))]
            /\ UNCHANGED result
    /\ UNCHANGED <<call, trace>>

\* Parser::parse_file and Parser::parse_bytes up to the size check of
\* parse_bytes_internal
Enter(c) ==
    /\ pc[c] = "enter"
    /\ IF call[c].op = "parse_file" /\ ~call[c].read.ok
       THEN /\ result' = [result EXCEPT ![c] =
                            io_error("Failed to read file", call[c].read.error)]
            /\ pc' = [pc EXCEPT ![c] = "done"]
       ELSE IF call[c].op = "parse_bytes" /\ data_len(call[c].data) = 0
       THEN /\ result' = [result EXCEPT ![c] = argument_error("Data cannot be empty")]
            /\ pc' = [pc EXCEPT ![c] = "done"]
       ELSE IF exceeds_limit(config, BufferOf(call[c]))
       THEN /\ result' = [result EXCEPT ![c] =
                            runtime_error("File size exceeds limit",
                                          [actual |-> data_len(BufferOf(call[c])),
                                           limit |-> config.max_size])]
            /\ pc' = [pc EXCEPT ![c] = "done"]
       ELSE /\ pc' = [pc EXCEPT ![c] = "detect"]
            /\ UNCHANGED result
    /\ UNCHANGED <<config, call, trace>>

\* parse_bytes_internal: FormatDetector::detect
DetectStep(c) ==
    /\ pc[c] = "detect"
    /\ \E format \in {detect(IF call[c].op = "parse_file" THEN Some(call[c].path)
                               ELSE None,
                               Some(Contents(BufferOf(call[c]))))} :
        trace' = [trace EXCEPT ![c] = <<[step |-> "detect", format |-> format]>>]
    /\ pc' = [pc EXCEPT ![c] = "decode"]
    /\ UNCHANGED <<config, call, result>>

\* parse_bytes_internal: dispatch_to_parser
DecodeStep(c) ==
    /\ pc[c] = "decode"
    /\ \E routed \in {dispatch_to_parser(trace[c][1].format,
                                          Contents(BufferOf(call[c])), call[c].lib)} :
        /\ result' = [result EXCEPT ![c] = routed.result]
        /\ trace' = [trace EXCEPT ![c] =
                       Append(@, [step |-> "decode", capability |-> routed.capability])]
    /\ pc' = [pc EXCEPT ![c] = "done"]
    /\ UNCHANGED <<config, call>>

\* The methods that are one step: parse, the two detect_format methods,
\* config and strict_mode?.
Run(c) ==
    /\ pc[c] = "run"
    /\ result' = [result EXCEPT ![c] =
          CASE call[c].op = "parse" -> parse(config, call[c].input)
            [] call[c].op = "detect_format_from_bytes" ->
                  [kind |-> "tag", tag |-> detect_format_from_bytes(call[c].data)]
            [] call[c].op = "detect_format_from_filename" ->
                  [kind |-> "tag", tag |-> detect_format_from_filename(call[c].filename)]
            [] call[c].op = "config" -> [kind |-> "hash", hash |-> config]
            [] call[c].op = "strict_mode?" ->
                  [kind |-> "bool", value |-> config.strict_mode]]
    /\ pc' = [pc EXCEPT ![c] = "done"]
    /\ UNCHANGED <<config, call, trace>>

\* The caller takes the result.
ReturnTo(c) ==
    /\ pc[c] = "done"
    /\ pc' = [pc EXCEPT ![c] = "idle"]
    /\ call' = [call EXCEPT ![c] = NoCall]
    /\ result' = [result EXCEPT ![c] = NoResult]
    /\ trace' = [trace EXCEPT ![c] = <<>>]
    /\ UNCHANGED config

NextConcurrent ==
    \E c \in Callers :
        \/ Begin(c) \/ Enter(c) \/ DetectStep(c) \/ DecodeStep(c) \/ Run(c)
        \/ ReturnTo(c)

SpecConcurrent == InitConcurrent /\ [][NextConcurrent]_vars

----------------------------------------------------------------------------
(* Properties of the detector, checked under SpecDetect *)

DetectDone == pc = "done" /\ call.op = "detect"

ContentDone == pc = "done" /\ call.op = "detect_from_content"

Gives(format) == result = [kind |-> "format", format |-> format]

\* The first n bytes of a buffer (all of it when it is shorter).
Prefix(data, n) == SubSeq(data, 1, Min(n, Len(data)))

BeginsWith(data, sig) == Prefix(data, Len(sig)) = sig

\* pat occurs in s as a run of consecutive bytes.
Occurs(pat, s) ==
    \E i \in 0..(Len(s) - Len(pat)) : SubSeq(s, i + 1, i + Len(pat)) = pat

\* The bytes with the ASCII capitals A..Z replaced by a..z.
AsciiLower(s) == [i \in 1..Len(s) |-> IF s[i] >= 65 /\ s[i] <= 90 THEN s[i] + 32 ELSE s[i]]

\* C1: detect is total: for every filename (absent or not) and every content
\* (absent, empty or not) it returns one FileFormat value, never a panic.
C1_DetectTotal ==
    DetectDone => (result.kind = "format" /\ result.format \in FileFormat)

C1_Witness ==
    /\ DetectDone
    /\ call.filename = None
    /\ call.content = Some(<<>>)
    /\ Gives("Text")

\* C2: whenever the content classifies as neither Text nor Unknown, detect
\* returns the content's classification, whatever the filename.
C2_ContentOverridesFilename ==
    (/\ DetectDone
     /\ call.content # None
     /\ detect_from_content(call.content[1]) \notin {"Text", "Unknown"})
    => Gives(detect_from_content(call.content[1]))

C2_Witness ==
    /\ DetectDone
    /\ call.filename = Some(Str(<<"n", "o", "t", "e", ".", "t", "x", "t">>))
    /\ call.content # None
    /\ BeginsWith(call.content[1], <<37, 80, 68, 70>>)
    /\ Len(call.content[1]) > 4
    /\ Gives("Pdf")

\* C3: whenever the content is absent or classifies as Text and the
\* filename's extension maps to a known format, detect returns that format.
C3_ExtensionFallback ==
    (/\ DetectDone
     /\ call.content = None \/ detect_from_content(call.content[1]) = "Text"
     /\ call.filename # None
     /\ detect_from_extension(call.filename[1]) # "Unknown")
    => Gives(detect_from_extension(call.filename[1]))

C3_Witness ==
    /\ DetectDone
    /\ call.filename = Some(Str(<<"a", ".", "p", "d", "f">>))
    /\ call.content = Some(Str(<<"a">>))
    /\ Gives("Pdf")

\* C4: with the filename absent or of an unknown extension, detect returns
\* Text when the content is present and classifies as Text, and Unknown
\* exactly when the content is absent; detect never returns Unknown when the
\* content is present.
C4_FinalFallthrough ==
    DetectDone =>
        /\ (call.filename = None \/ detect_from_extension(call.filename[1]) = "Unknown")
           => /\ (call.content # None /\ detect_from_content(call.content[1]) = "Text")
                 => Gives("Text")
              /\ Gives("Unknown") <=> call.content = None
        /\ call.content # None => ~Gives("Unknown")

C4_Witness ==
    /\ DetectDone
    /\ call.filename = Some(Str(<<"x", ".", "z", "z", "z">>))
    /\ call.content = Some(<<>>)
    /\ Gives("Text")

\* The signatures of the binary formats, byte for byte.
BinarySignatures ==
    <<[sig |-> <<37, 80, 68, 70>>, format |-> "Pdf"],
      [sig |-> <<137, 80, 78, 71, 13, 10, 26, 10>>, format |-> "Png"],
      [sig |-> <<255, 216, 255>>, format |-> "Jpeg"],
      [sig |-> <<66, 77>>, format |-> "Bmp"],
      [sig |-> <<73, 73, 42, 0>>, format |-> "Tiff"],
      [sig |-> <<77, 77, 0, 42>>, format |-> "Tiff"],
      [sig |-> <<208, 207, 17, 224>>, format |-> "Xls"]>>

\* C5: a buffer that begins with the signature of a binary format classifies
\* as that format, whatever bytes follow (none included).
C5_BinarySignatures ==
    ContentDone =>
        \A k \in 1..Len(BinarySignatures) :
            BeginsWith(call.content[1], BinarySignatures[k].sig)
            => Gives(BinarySignatures[k].format)

C5_Witness ==
    /\ ContentDone
    /\ call.content = Some(<<137, 80, 78, 71, 13, 10, 26, 10>>)
    /\ Gives("Png")

\* C6: a buffer that begins with <!doctype or <html, in any letter case,
\* classifies as Html, whatever bytes follow.
C6_HtmlSignature ==
    (/\ ContentDone
     /\ \/ BeginsWith(AsciiLower(call.content[1]),
                      <<60, 33, 100, 111, 99, 116, 121, 112, 101>>)
        \/ BeginsWith(AsciiLower(call.content[1]), <<60, 104, 116, 109, 108>>))
    => Gives("Html")

\* The first byte of the buffer that is none of space, tab, LF, CR, if any.
FirstVisible(data) ==
    LET visible == {k \in 1..Len(data) : data[k] \notin {32, 9, 10, 13}}
    IN  IF visible = {} THEN None
        ELSE Some(data[CHOOSE k \in visible : \A j \in visible : k <= j])

\* pat occurs in full within the first n bytes of the buffer.
OccursWithin(pat, data, n) == Occurs(pat, Prefix(data, n))

\* The Office disambiguation of the decision list: word/, else xl/, else
\* ppt/, within the first 2000 bytes; else Xlsx.
RefOffice(data) ==
    IF OccursWithin(<<119, 111, 114, 100, 47>>, data, 2000) THEN "Docx"
    ELSE IF OccursWithin(<<120, 108, 47>>, data, 2000) THEN "Xlsx"
    ELSE IF OccursWithin(<<112, 112, 116, 47>>, data, 2000) THEN "Pptx"
    ELSE "Xlsx"

\* The ordered decision list: the tests, in order, with the format each gives.
RefTests(data) ==
    [k \in 1..Len(BinarySignatures) |->
        [hit |-> BeginsWith(data, BinarySignatures[k].sig),
         format |-> BinarySignatures[k].format]]
    \o
    <<[hit |-> BeginsWith(data, <<80, 75>>), format |-> RefOffice(data)],
      [hit |-> /\ Len(data) >= 5
               /\ \/ BeginsWith(data, <<60, 63, 120, 109, 108>>)
                  \/ BeginsWith(data, <<60, 33>>),
       format |-> "Xml"],
      [hit |-> /\ Len(data) >= 14
               /\ \/ Occurs(<<60, 33, 100, 111, 99, 116, 121, 112, 101>>,
                            AsciiLower(Prefix(data, 14)))
                  \/ Occurs(<<60, 104, 116, 109, 108>>, AsciiLower(Prefix(data, 14))),
       format |-> "Html"],
      [hit |-> FirstVisible(data) \in {Some(123), Some(91)}, format |-> "Json"],
      [hit |-> TRUE, format |-> "Text"]>>

\* The format of the first test of the list that matches.
RefClassify(data) ==
    IF data = <<>> THEN "Text"
    ELSE LET tests == RefTests(data)
             first == CHOOSE k \in 1..Len(tests) :
                          tests[k].hit /\ \A j \in 1..(k - 1) : ~tests[j].hit
         IN  tests[first].format

\* C7: detect_from_content gives, for every buffer, the format of the first
\* matching test of the ordered decision list (Text for the empty buffer).
C7_OrderedDecisionList ==
    ContentDone => Gives(RefClassify(call.content[1]))

C7_Witness ==
    /\ ContentDone
    /\ BeginsWith(call.content[1], <<123>>)
    /\ Occurs(<<60, 104, 116, 109, 108>>, Prefix(call.content[1], 14))
    /\ Len(call.content[1]) >= 14
    /\ Gives("Html")

ZipDone == ContentDone /\ BeginsWith(call.content[1], <<80, 75>>)

\* C8 as stated: in a buffer that begins with PK, word/ within the first 2000
\* bytes gives Docx, ppt/ within them gives Pptx, neither of them gives Xlsx.
C8_AsStated ==
    ZipDone =>
        LET word == OccursWithin(<<119, 111, 114, 100, 47>>, call.content[1], 2000)
            ppt == OccursWithin(<<112, 112, 116, 47>>, call.content[1], 2000)
        IN  /\ word => Gives("Docx")
            /\ ppt => Gives("Pptx")
            /\ (~word /\ ~ppt) => Gives("Xlsx")

\* C8, amended: in a buffer that begins with PK, word/ within the first 2000
\* bytes gives Docx; ppt/ within them, with neither word/ nor xl/ within
\* them, gives Pptx; every other buffer gives Xlsx.
C8_ZipDisambiguation ==
    ZipDone =>
        LET word == OccursWithin(<<119, 111, 114, 100, 47>>, call.content[1], 2000)
            xl == OccursWithin(<<120, 108, 47>>, call.content[1], 2000)
            ppt == OccursWithin(<<112, 112, 116, 47>>, call.content[1], 2000)
        IN  /\ word => Gives("Docx")
            /\ (ppt /\ ~word /\ ~xl) => Gives("Pptx")
            /\ (~word /\ (xl \/ ~ppt)) => Gives("Xlsx")

\* ppt/ ends at byte 2000, and xl/ follows it beyond the window.
C8_Witness ==
    /\ ZipDone
    /\ Len(call.content[1]) = 2003
    /\ SubSeq(call.content[1], 1997, 2003) = <<112, 112, 116, 47, 120, 108, 47>>
    /\ Gives("Pptx")

----------------------------------------------------------------------------
(* Properties of the Parser, checked under Spec *)

\* A call that has handed a buffer to parse_bytes_internal (Parser::parse_bytes
\* turns the empty buffer away before it does, parse_file a file it cannot
\* read).
InternalDone ==
    /\ pc = "done"
    /\ call.op \in {"parse_bytes", "parse_bytes_direct", "parse_file",
                   "parse_file_direct"}
    /\ "data" \in DOMAIN call
    /\ ~(call.op = "parse_bytes" /\ Len(call.data.bytes) + call.data.fill = 0)

SizeLimitExceeded(actual, limit) ==
    [kind |-> "err", class |-> "RuntimeError",
     message |-> <<"File size exceeds limit", [actual |-> actual, limit |-> limit]>>]

IsSizeError(r) == r.kind = "err" /\ r.message[1] = "File size exceeds limit"

\* C9: parse_bytes fails for size exactly when the buffer is longer than
\* max_size; the error then carries the buffer's length and max_size, and
\* neither detection nor a decoding capability has run.
C9_SizeCeiling ==
    InternalDone =>
        LET actual == Len(call.data.bytes) + call.data.fill
            limit == call.config.max_size
        IN  /\ IsSizeError(result) <=> actual > limit
            /\ IsSizeError(result)
               => result = SizeLimitExceeded(actual, limit) /\ trace = <<>>

\* 101 MiB under the default configuration, with a decoder that would fail.
C9_Witness ==
    /\ InternalDone
    /\ call.config = DefaultConfig
    /\ Len(call.data.bytes) + call.data.fill = 105906176
    /\ ~call.lib.ok
    /\ result = SizeLimitExceeded(105906176, 104857600)
    /\ trace = <<>>

\* The capability each format is decoded by.
Route ==
    [f \in FileFormat |->
        CASE f = "Pdf" -> "parse_pdf"
          [] f = "Docx" -> "parse_docx"
          [] f = "Pptx" -> "parse_pptx"
          [] f \in {"Xlsx", "Xls"} -> "parse_xlsx"
          [] f = "Json" -> "parse_json"
          [] f \in {"Xml", "Html"} -> "parse_xml"
          [] f \in {"Png", "Jpeg", "Tiff", "Bmp"} -> "ocr_image"
          [] f \in {"Text", "Unknown"} -> "parse_text"]

\* C10: for a buffer within the limit, parse_bytes detects the format with
\* detect(filename, Some(data)) and invokes the one capability that format is
\* routed to, and no other.
C10_DispatchRouting ==
    (InternalDone /\ ~IsSizeError(result)) =>
        \E f \in FileFormat :
            /\ f = detect(call.filename, Some(call.data.bytes))
            /\ trace = <<[step |-> "detect", format |-> f],
                         [step |-> "decode", capability |-> Route[f]]>>

\* A text file named i.HTM is decoded as markup.
C10_Witness ==
    /\ InternalDone
    /\ call.op = "parse_file"
    /\ call.filename = Some(Str(<<"i", ".", "H", "T", "M">>))
    /\ call.data.bytes = Str(<<"a">>)
    /\ trace = <<[step |-> "detect", format |-> "Html"],
                 [step |-> "decode", capability |-> "parse_xml"]>>

\* What the capability of that name returns for a buffer.
Capability(name, data, lib) ==
    CASE name = "parse_pdf" -> parse_pdf(data, lib)
      [] name = "parse_docx" -> parse_docx(data, lib)
      [] name = "parse_pptx" -> parse_pptx(data, lib)
      [] name = "parse_xlsx" -> parse_xlsx(data, lib)
      [] name = "parse_json" -> parse_json(data, lib)
      [] name = "parse_xml" -> parse_xml(data, lib)
      [] name = "ocr_image" -> ocr_image(data, lib)
      [] name = "parse_text" -> parse_text(data)

\* C11: for a buffer within the limit the capability selected is invoked
\* once; when it succeeds with a text (the empty text included) parse_bytes
\* succeeds with exactly that text, and when it fails parse_bytes fails with
\* a RuntimeError whose message is the capability's, the underlying error
\* text unchanged in it; no other capability is tried.
C11_ResultSurfacing ==
    (InternalDone /\ ~IsSizeError(result)) =>
        LET f == detect(call.filename, Some(call.data.bytes))
            out == Capability(Route[f], call.data.bytes, call.lib)
        IN  /\ Len(trace) = 2
            /\ trace[2] = [step |-> "decode", capability |-> Route[f]]
            /\ out.kind = "ok" => result = [kind |-> "ok", text |-> out.text]
            /\ out.kind = "err"
               => /\ result.kind = "err"
                  /\ result.class = "RuntimeError"
                  /\ result.message = out.message
                  /\ result.message[2] = call.lib.error

\* A legacy spreadsheet the library cannot read.
C11_Witness ==
    /\ InternalDone
    /\ call.op = "parse_bytes"
    /\ call.data.bytes = OLE_MAGIC
    /\ ~call.lib.ok
    /\ trace = <<[step |-> "detect", format |-> "Xls"],
                 [step |-> "decode", capability |-> "parse_xlsx"]>>
    /\ result = [kind |-> "err", class |-> "RuntimeError",
                 message |-> <<"Failed to parse Excel file", "malformed">>]

ParseDone == pc = "done" /\ call.op = "parse"

\* s is t with whitespace before and after it, and t neither starts nor ends
\* with whitespace.
IsTrimOf(t, s) ==
    /\ t = <<>> \/ (t[1] \notin WhiteSpaceChars /\ t[Len(t)] \notin WhiteSpaceChars)
    /\ \E i \in 0..(Len(s) - Len(t)) :
          /\ SubSeq(s, i + 1, i + Len(t)) = t
          /\ \A k \in (1..i) \cup ((i + Len(t) + 1)..Len(s)) : s[k] \in WhiteSpaceChars

\* C12: parse fails with "Input cannot be empty" exactly for the input of
\* length zero; every other input, whitespace alone included, gives the
\* input without the whitespace around it, followed by " strict=true" when
\* strict_mode is set.
C12_ParseString ==
    ParseDone =>
        /\ result.kind = "err" <=> Len(call.input) = 0
        /\ result.kind = "err"
           => result = [kind |-> "err", class |-> "ArgumentError",
                        message |-> <<"Input cannot be empty">>]
        /\ result.kind = "ok"
           => LET n == IF call.config.strict_mode THEN Len(STRICT_MARKER) ELSE 0
                  m == Len(result.text) - n
              IN  /\ m >= 0
                  /\ SubSeq(result.text, m + 1, m + n)
                     = (IF call.config.strict_mode THEN STRICT_MARKER ELSE <<>>)
                  /\ IsTrimOf(SubSeq(result.text, 1, m), call.input)

\* Whitespace alone in strict mode: the marker and nothing before it.
C12_Witness ==
    /\ ParseDone
    /\ call.config.strict_mode
    /\ call.input = <<10, 9, 13, 32>>
    /\ result = [kind |-> "ok", text |-> STRICT_MARKER]

FileDone == pc = "done" /\ call.op \in {"parse_file", "parse_file_direct"}

\* parse_bytes(data, filename, config) as the Dispatcher's contract has it:
\* the size check, then detection, then the capability the format is routed to.
RefParseBytes(cfg, buf, filename, lib) ==
    IF Len(buf.bytes) + buf.fill > cfg.max_size
    THEN [result |-> SizeLimitExceeded(Len(buf.bytes) + buf.fill, cfg.max_size),
          trace |-> <<>>]
    ELSE LET f == detect(filename, Some(buf.bytes))
         IN  [result |-> Capability(Route[f], buf.bytes, lib),
              trace |-> <<[step |-> "detect", format |-> f],
                          [step |-> "decode", capability |-> Route[f]]>>]

\* C13: parse_file of a file that cannot be read fails with an IOError, which
\* is no RuntimeError, and neither the size check, detection nor decoding has
\* run; when the read gives bytes d the outcome is that of parse_bytes on d
\* with the path as the file name and the same configuration.
C13_ParsePath ==
    FileDone =>
        IF "read" \in DOMAIN call
        THEN /\ result.kind = "err"
             /\ result.class = "IOError"
             /\ result.class # "RuntimeError"
             /\ result.message[1] = "Failed to read file"
             /\ trace = <<>>
        ELSE /\ call.filename = <<call.path>>
             /\ LET alone == RefParseBytes(call.config, call.data, <<call.path>>,
                                           call.lib)
                IN  result = alone.result /\ trace = alone.trace

\* A file named a.pdf that holds the letter a: the extension decides.
C13_Witness ==
    /\ FileDone
    /\ call.op = "parse_file"
    /\ call.path = Str(<<"a", ".", "p", "d", "f">>)
    /\ "data" \in DOMAIN call
    /\ call.data.bytes = Str(<<"a">>)
    /\ call.lib.ok
    /\ trace = <<[step |-> "detect", format |-> "Pdf"],
                 [step |-> "decode", capability |-> "parse_pdf"]>>
    /\ result.kind = "ok"

TextDone == pc = "done" /\ call.op = "parse_text"

\* The buffer is UTF-8 from its first byte to its last.
WellFormedUtf8(data) == ~MalformedFrom(data, 1)

\* C14: parse_text succeeds on every buffer; a buffer that is well-formed
\* UTF-8 gives its UTF-8 decoding, every other buffer the windows-1252
\* decoding of the whole buffer.
C14_TextNormalizer ==
    TextDone =>
        result = [kind |-> "ok",
                  text |-> IF WellFormedUtf8(call.data)
                           THEN from_utf8_lossy(call.data)
                           ELSE decode_windows_1252(call.data).text]

----------------------------------------------------------------------------
(* Properties of the tags and the extension table *)

\* The names of the variants of FileFormat, as they are written.
VariantName ==
    [f \in FileFormat |->
        CASE f = "Pdf" -> Str(<<"P", "d", "f">>)
          [] f = "Docx" -> Str(<<"D", "o", "c", "x">>)
          [] f = "Xlsx" -> Str(<<"X", "l", "s", "x">>)
          [] f = "Xls" -> Str(<<"X", "l", "s">>)
          [] f = "Pptx" -> Str(<<"P", "p", "t", "x">>)
          [] f = "Png" -> Str(<<"P", "n", "g">>)
          [] f = "Jpeg" -> Str(<<"J", "p", "e", "g">>)
          [] f = "Tiff" -> Str(<<"T", "i", "f", "f">>)
          [] f = "Bmp" -> Str(<<"B", "m", "p">>)
          [] f = "Json" -> Str(<<"J", "s", "o", "n">>)
          [] f = "Xml" -> Str(<<"X", "m", "l">>)
          [] f = "Html" -> Str(<<"H", "t", "m", "l">>)
          [] f = "Text" -> Str(<<"T", "e", "x", "t">>)
          [] f = "Unknown" -> Str(<<"U", "n", "k", "n", "o", "w", "n">>)]

SymbolDone == pc = "done" /\ call.op = "to_symbol"

\* C15: to_symbol gives each of the 14 variants one tag in lowercase; the
\* tag of Html is "xml", that of Xml; the tag of every other variant is its
\* name in lowercase, and no two variants other than Html share a tag.
C15_CanonicalTags ==
    /\ Cardinality(FileFormat) = 14
    /\ SymbolDone =>
          /\ result.kind = "tag"
          /\ result.tag = AsciiLower(result.tag)
          /\ call.format = "Html" => result.tag = Str(<<"x", "m", "l">>)
          /\ call.format # "Html"
             => /\ result.tag = AsciiLower(VariantName[call.format])
                /\ \A g \in FileFormat \ {"Html", call.format} :
                      to_symbol(g) # result.tag

C15_Witness ==
    /\ SymbolDone
    /\ call.format = "Html"
    /\ result = [kind |-> "tag", tag |-> Str(<<"x", "m", "l">>)]

BytesTagDone == pc = "done" /\ call.op = "detect_format_from_bytes"

NameTagDone == pc = "done" /\ call.op = "detect_format_from_filename"

\* C16 as stated: detect_format_from_bytes gives the tag of the format
\* detect_from_content finds, and detect_format_from_filename the tag of the
\* format detect_from_extension finds.
C16_AsStated ==
    /\ BytesTagDone => result.tag = to_symbol(detect_from_content(call.data))
    /\ NameTagDone => result.tag = to_symbol(detect_from_extension(call.filename))

\* C16: detect_format_from_bytes gives the tag of the format
\* detect_from_content finds, except for the legacy spreadsheet (Xls), for
\* which it gives "xlsx" and not "xls"; detect_format_from_filename gives
\* the tag of the format detect_from_extension finds, "xls" for Xls.
C16_BoundaryTags ==
    /\ BytesTagDone
       => LET f == detect_from_content(call.data)
          IN  result.tag = (IF f = "Xls" THEN Str(<<"x", "l", "s", "x">>)
                            ELSE to_symbol(f))
    /\ NameTagDone => result.tag = to_symbol(detect_from_extension(call.filename))

\* The signature of the legacy spreadsheet is reported as "xlsx".
C16_Witness ==
    /\ BytesTagDone
    /\ call.data = OLE_MAGIC
    /\ result = [kind |-> "tag", tag |-> Str(<<"x", "l", "s", "x">>)]

ExtensionDone == pc = "done" /\ call.op = "detect_from_extension"

\* The extensions of each format, lowercase.
ExtensionsOf ==
    [f \in FileFormat |->
        CASE f = "Pdf" -> {Str(<<"p", "d", "f">>)}
          [] f = "Docx" -> {Str(<<"d", "o", "c", "x">>)}
          [] f = "Xlsx" -> {Str(<<"x", "l", "s", "x">>)}
          [] f = "Xls" -> {Str(<<"x", "l", "s">>)}
          [] f = "Pptx" -> {Str(<<"p", "p", "t", "x">>)}
          [] f = "Png" -> {Str(<<"p", "n", "g">>)}
          [] f = "Jpeg" -> {Str(<<"j", "p", "g">>), Str(<<"j", "p", "e", "g">>)}
          [] f = "Tiff" -> {Str(<<"t", "i", "f", "f">>), Str(<<"t", "i", "f">>)}
          [] f = "Bmp" -> {Str(<<"b", "m", "p">>)}
          [] f = "Json" -> {Str(<<"j", "s", "o", "n">>)}
          [] f = "Xml" -> {Str(<<"x", "m", "l">>)}
          [] f = "Html" -> {Str(<<"h", "t", "m", "l">>), Str(<<"h", "t", "m">>)}
          [] f = "Text" -> {Str(<<"t", "x", "t">>), Str(<<"t", "e", "x", "t">>),
                            Str(<<"m", "d">>),
                            Str(<<"m", "a", "r", "k", "d", "o", "w", "n">>),
                            Str(<<"c", "s", "v">>)}
          [] f = "Unknown" -> {}]

\* The format whose extensions hold e, Unknown when none does.
FormatOfExtension(e) ==
    IF \E f \in FileFormat : e \in ExtensionsOf[f]
    THEN CHOOSE f \in FileFormat : e \in ExtensionsOf[f]
    ELSE "Unknown"

\* The bytes with the ASCII letters a..z replaced by A..Z.
AsciiUpper(s) == [i \in 1..Len(s) |-> IF s[i] >= 97 /\ s[i] <= 122 THEN s[i] - 32 ELSE s[i]]

\* The capital of a letter: of the ASCII and Latin-1 small letters, of
\* U+0131 (dotless i, whose capital is I) and of U+017F (long s, whose
\* capital is S); U+00DF has the two-letter capital SS.
UpperChar(c) ==
    IF c >= 97 /\ c <= 122 THEN <<c - 32>>
    ELSE IF c >= 224 /\ c <= 254 /\ c # 247 THEN <<c - 32>>
    ELSE IF c = 223 THEN <<83, 83>>
    ELSE IF c = 305 THEN <<73>>
    ELSE IF c = 383 THEN <<83>>
    ELSE <<c>>

RECURSIVE ToUpper(_)
\* The string in capitals.
ToUpper(s) == IF s = <<>> THEN <<>> ELSE UpperChar(Head(s)) \o ToUpper(Tail(s))

\* C17 as stated: the result is that of the table for the lowercased final
\* extension of the path (Unknown without an extension), and it is the same
\* for the file name written in capitals or in small letters.
C17_AsStated ==
    ExtensionDone =>
        LET name == call.filename[1]
            ext == extension(name)
        IN  /\ Gives(IF ext = None THEN "Unknown"
                      ELSE FormatOfExtension(to_lowercase(ext[1])))
            /\ Gives(detect_from_extension(to_lowercase(name)))
            /\ Gives(detect_from_extension(ToUpper(name)))

\* C17: the result is that of the table for the lowercased final extension
\* of the path (Unknown without an extension or with one outside the
\* table); file names with the same lowercase form classify alike, so
\* changing the case of ASCII letters never changes the result.
C17_ExtensionOnly ==
    ExtensionDone =>
        LET name == call.filename[1]
            ext == extension(name)
        IN  /\ Gives(IF ext = None THEN "Unknown"
                      ELSE FormatOfExtension(to_lowercase(ext[1])))
            /\ Gives(detect_from_extension(to_lowercase(name)))
            /\ Gives(detect_from_extension(AsciiLower(name)))
            /\ Gives(detect_from_extension(AsciiUpper(name)))

\* A.PDF is a Pdf.
C17_Witness ==
    /\ ExtensionDone
    /\ call.filename = <<Str(<<"A", ".", "P", "D", "F">>)>>
    /\ Gives("Pdf")

ListDone == pc = "done" /\ call.op = "supported_formats"

SupportsDone == pc = "done" /\ call.op = "supports_file"

\* Extensions to look for in the list: those of the table, those of the
\* list, and some that are in neither.
CandidateExtensions ==
    UNION {ExtensionsOf[f] : f \in FileFormat}
    \cup {supported_extensions[k] : k \in 1..Len(supported_extensions)}
    \cup {Str(<<"d", "o", "c">>), Str(<<"g", "i", "f">>), Str(<<"z", "z", "z">>),
          Str(<<"h", "t", "m", "l", "x">>), Str(<<"p", "d">>), <<>>}

----------------------------------------------------------------------------
(* Properties of the configuration, checked under SpecConcurrent and Spec *)

\* The configuration Parser.new makes of an options hash: each field is the
\* option of that name when it is given, and the default otherwise.
Merged(options) ==
    LET given(k) == options # <<>> /\ k \in DOMAIN options[1]
    IN  [strict_mode |-> IF given("strict_mode") THEN options[1].strict_mode ELSE FALSE,
         max_depth |-> IF given("max_depth") THEN options[1].max_depth ELSE 100,
         encoding |-> IF given("encoding") THEN options[1].encoding ELSE "UTF-8",
         max_size |-> IF given("max_size") THEN options[1].max_size ELSE 104857600]

\* What a call gives on a Parser of that configuration that no one else is
\* calling.
Alone(cfg, k) ==
    CASE k.op = "parse" -> [result |-> parse(cfg, k.input), trace |-> <<>>]
      [] k.op = "parse_bytes" ->
            IF k.data.bytes = <<>> /\ k.data.fill = 0
            THEN [result |-> [kind |-> "err", class |-> "ArgumentError",
                              message |-> <<"Data cannot be empty">>],
                  trace |-> <<>>]
            ELSE RefParseBytes(cfg, k.data, <<>>, k.lib)
      [] k.op = "parse_file" ->
            IF ~k.read.ok
            THEN [result |-> [kind |-> "err", class |-> "IOError",
                              message |-> <<"Failed to read file", k.read.error>>],
                  trace |-> <<>>]
            ELSE RefParseBytes(cfg, k.read.data, <<k.path>>, k.lib)
      [] k.op = "detect_format_from_bytes" ->
            [result |-> [kind |-> "tag", tag |-> detect_format_from_bytes(k.data)],
             trace |-> <<>>]
      [] k.op = "detect_format_from_filename" ->
            [result |-> [kind |-> "tag",
                         tag |-> detect_format_from_filename(k.filename)],
             trace |-> <<>>]
      [] k.op = "config" -> [result |-> [kind |-> "hash", hash |-> cfg], trace |-> <<>>]
      [] k.op = "strict_mode?" ->
            [result |-> [kind |-> "bool", value |-> cfg.strict_mode], trace |-> <<>>]

\* The configuration is the one made at construction, and every call that
\* has finished has the result it has alone.
ConfigFixed ==
    /\ \E options \in OptionSets : config = Merged(options)
    /\ \A c \in Callers :
          pc[c] = "done"
          => /\ result[c] = Alone(config, call[c]).result
             /\ trace[c] = Alone(config, call[c]).trace

\* C19: the configuration of a Parser is the options of the caller over the
\* defaults (strict_mode false, max_depth 100, encoding "UTF-8", max_size
\* 104857600); no step of any method changes it; and however the steps of
\* concurrent calls interleave, each call ends with the result it has alone.
C19_ConfigImmutable == []ConfigFixed /\ [][config' = config]_vars

\* One caller has its result while the other is between the size check and
\* the decoding.
C19_Witness ==
    /\ pc["a"] = "done"
    /\ call["a"].op = "parse_bytes"
    /\ result["a"].kind = "ok"
    /\ pc["b"] = "decode"
    /\ call["b"].op = "parse_file"
    /\ config.max_size = 5

\* A call of parse, parse_bytes or parse_file on the Parser has finished.
ParserCallDone ==
    pc = "done" /\ call.op \in {"parse", "parse_bytes", "parse_file"}

\* Other values of the two fields.
OtherFields ==
    {[encoding |-> "UTF-8", max_depth |-> 100],
     [encoding |-> "ISO-8859-1", max_depth |-> 0],
     [encoding |-> "UTF-16LE", max_depth |-> 1],
     [encoding |-> "", max_depth |-> 7]}

\* What the call in progress gives on a Parser of the configuration cfg.
OutcomeWith(cfg) ==
    CASE call.op = "parse" -> [result |-> parse(cfg, call.input), trace |-> <<>>]
      [] call.op = "parse_bytes" ->
            IF call.data.bytes = <<>> /\ call.data.fill = 0
            THEN [result |-> [kind |-> "err", class |-> "ArgumentError",
                              message |-> <<"Data cannot be empty">>],
                  trace |-> <<>>]
            ELSE RefParseBytes(cfg, call.data, <<>>, call.lib)
      [] call.op = "parse_file" ->
            IF "read" \in DOMAIN call
            THEN [result |-> [kind |-> "err", class |-> "IOError",
                              message |-> <<"Failed to read file",
                                            "No such file or directory (os error 2)">>],
                  trace |-> <<>>]
            ELSE RefParseBytes(cfg, call.data, <<call.path>>, call.lib)

\* C20: a Parser whose configuration differs from this one in encoding and
\* max_depth only gives, for the same call of parse, parse_bytes or
\* parse_file, the same text or the same error, and takes the same steps.
C20_InertFields ==
    ParserCallDone =>
        \A o \in OtherFields :
            \E other \in {OutcomeWith([config EXCEPT !.encoding = o.encoding,
                                                      !.max_depth = o.max_depth])} :
                result = other.result /\ trace = other.trace

\* A Parser told that the encoding is ISO-8859-1 decodes the three bytes of
\* U+212A as UTF-8.
C20_Witness ==
    /\ ParserCallDone
    /\ call.op = "parse_bytes"
    /\ config.encoding = "ISO-8859-1"
    /\ call.data.bytes = <<226, 132, 170>>
    /\ result = [kind |-> "ok", text |-> <<8490>>]

----------------------------------------------------------------------------
(* The Office markers: their priority and the window they are looked for in *)

\* The markers from the highest priority to the lowest, with their formats.
MarkerPriority ==
    <<[marker |-> <<119, 111, 114, 100, 47>>, format |-> "Docx"],
      [marker |-> <<120, 108, 47>>, format |-> "Xlsx"],
      [marker |-> <<112, 112, 116, 47>>, format |-> "Pptx"]>>

\* The format of the marker of highest priority that lies in full within
\* the bytes given, Xlsx when none does.
ByPriority(window) ==
    LET found == {k \in 1..Len(MarkerPriority) : Occurs(MarkerPriority[k].marker, window)}
    IN  IF found = {} THEN "Xlsx"
        ELSE MarkerPriority[CHOOSE k \in found : \A j \in found : k <= j].format

\* C21: for a buffer that begins with PK the result depends on the first
\* min(len, 2000) bytes only (the buffer cut to them gives the same result,
\* so a marker wholly or partly beyond byte 2000 has no effect), and among
\* the markers within them the one of highest priority decides, wherever
\* the markers lie: word/ gives Docx, else xl/ Xlsx, else ppt/ Pptx, else
\* Xlsx.
C21_OfficePriorityWindow ==
    ZipDone =>
        LET data == call.content[1]
            window == SubSeq(data, 1, IF Len(data) < 2000 THEN Len(data) ELSE 2000)
        IN  /\ Gives(ByPriority(window))
            /\ Gives(detect_from_content(window))

\* ppt/ lies before word/ in the window, and word/ decides.
C21_Witness ==
    /\ ZipDone
    /\ call.content[1] = <<80, 75, 112, 112, 116, 47, 119, 111, 114, 100, 47>>
    /\ Gives("Docx")

----------------------------------------------------------------------------
(* The empty buffer *)

BytesCallDone == pc = "done" /\ call.op \in {"parse_bytes", "parse_bytes_direct"}

IsEmptyBuffer(buf) == buf.bytes = <<>> /\ buf.fill = 0

\* C22: on a buffer that is not empty, Parser#parse_bytes under the default
\* configuration and the module-level parse_bytes give the same outcome,
\* that of the size check, detect(None, data) and the dispatch; on the empty
\* buffer the method fails with "Data cannot be empty" and nothing has run,
\* whatever the configuration, while the module-level function and
\* parse_file of an empty file detect and dispatch the empty buffer.
C22_EmptyBuffer ==
    /\ (BytesCallDone /\ ~IsEmptyBuffer(call.data) /\ call.config = DefaultConfig)
       => LET both == RefParseBytes(DefaultConfig, call.data, <<>>, call.lib)
          IN  result = both.result /\ trace = both.trace
    /\ (BytesCallDone /\ IsEmptyBuffer(call.data))
       => IF call.op = "parse_bytes"
          THEN /\ result = [kind |-> "err", class |-> "ArgumentError",
                            message |-> <<"Data cannot be empty">>]
               /\ trace = <<>>
          ELSE /\ result = [kind |-> "ok", text |-> <<>>]
               /\ trace = <<[step |-> "detect", format |-> "Text"],
                            [step |-> "decode", capability |-> "parse_text"]>>
    /\ (FileDone /\ "data" \in DOMAIN call /\ IsEmptyBuffer(call.data))
       => /\ Len(trace) = 2
          /\ trace[1] = [step |-> "detect",
                         format |-> detect(call.filename, <<<<>>>>)]
          /\ trace[2].step = "decode"
          /\ result # [kind |-> "err", class |-> "ArgumentError",
                       message |-> <<"Data cannot be empty">>]

\* The module-level function decodes the empty buffer as text.
C22_Witness ==
    /\ BytesCallDone
    /\ call.op = "parse_bytes_direct"
    /\ IsEmptyBuffer(call.data)
    /\ result = [kind |-> "ok", text |-> <<>>]
    /\ Len(trace) = 2

====
